---- MODULE Spec2Model ----
(***************************************************************************)
(* Model of the real-time connection layer of happy-server                 *)
(* (packages/happy-server/sources/app/api/socket.ts): the socket.io        *)
(* 'connection' handler of startSocket, the connection registry and the    *)
(* ephemeral broadcaster of eventRouter, and the per-user RPC listener     *)
(* table.                                                                  *)
(*                                                                         *)
(* The 'connection' handler is an async function.  It runs synchronously   *)
(* up to `await auth.verifyToken(token)` (action Connection), suspends,    *)
(* and continues when the verifier settles (VerifyResolve, VerifyThrow).    *)
(* The channel of a socket may close at any time: a 'disconnect' event     *)
(* runs the listeners attached at that moment (Disconnect), and none when  *)
(* the handler has not attached them (CloseUnheard).                       *)
(*                                                                         *)
(* eventRouter and rpcHandler are not part of the available sources; the   *)
(* operators addConnection, removeConnection, getConnections,              *)
(* emitEphemeral, buildMachineActivityEphemeral, rpcRegister and           *)
(* rpcTeardown follow sections 3, 4.1, 4.2 and 4.3 of the specification.   *)
(* Date.now() timestamps are left out of the payloads.                     *)
(***************************************************************************)
EXTENDS Integers, Sequences, FiniteSets, TLC

\* ------------------------------------------------------------------ bounds
NumSockets == 2
MaxOps == 3

\* --------------------------------------------------------------- constants
Sockets == 1..NumSockets
Undefined == "undefined"
Null == "null"
Throw == "throw"

Users == {"uA", "uB"}
Tokens == {Undefined, "tok"}
ClientTypes == {Undefined, "user-scoped", "session-scoped", "machine-scoped"}
SessionIds == {Undefined, "s1"}
MachineIds == {Undefined, "m1", "m2"}
Methods == {"ping"}
ConnectionTypes == {"user-scoped", "session-scoped", "machine-scoped"}

\* The handshake payloads tried: any token and client type; a client sends
\* the identifier of the scope it declares, or omits it, and no other one.
Handshakes ==
    {a \in [token : Tokens, clientType : ClientTypes,
            sessionId : SessionIds, machineId : MachineIds] :
        /\ a.sessionId # Undefined => a.clientType = "session-scoped"
        /\ a.machineId # Undefined => a.clientType = "machine-scoped"}

ErrMissingToken == "Missing authentication token"
ErrMissingSessionId == "Session ID required for session-scoped clients"
ErrMissingMachineId == "Machine ID required for machine-scoped clients"
ErrInvalidToken == "Invalid authentication token"

HandlerNames == {"disconnect", "rpc", "usage", "sessionUpdate", "ping",
                 "machineUpdate", "artifactUpdate", "accessKey"}

NoAuth == [token |-> Undefined, clientType |-> Undefined,
           sessionId |-> Undefined, machineId |-> Undefined]
NoConnection == [connectionType |-> Null, socket |-> 0, userId |-> Null,
                 sessionId |-> Undefined, machineId |-> Undefined]
NoPayload == [type |-> Null, machineId |-> Undefined, online |-> FALSE]
NoEmit == [userId |-> Null, payload |-> NoPayload, filter |-> Null,
           recipients |-> {}]

VARIABLES
    pc,           \* position of each socket's 'connection' handler
    chan,         \* state of each socket's underlying channel
    auth,         \* socket.handshake.auth as read by the handler
    verified,     \* what verifyToken settled with, per socket
    connection,   \* the ClientConnection object built for the socket
    registry,     \* eventRouter: userId -> set of ClientConnection
    gauge,        \* live-connection gauge per connection type
    errors,       \* 'error' events emitted to each peer, in order
    forced,       \* sockets on which the server called socket.disconnect()
    verifyCalls,  \* number of auth.verifyToken calls made for each socket
    handlers,     \* per-socket listeners attached by the handler
    rpcListeners, \* userId -> (method -> socket)
    emittedBy,    \* machine-activity payloads emitted on behalf of a socket
    lastEmit,     \* the most recent emitEphemeral call and its recipients
    lastReg,      \* history: last socket to register each (user, method)
    displaced,    \* history: sockets whose registration another overwrote
    history,      \* history: registry calls made by RegistrySpec
    rpcFrames,    \* frames the RPC router sent in its most recent step
    pendingRpc,   \* forwarded RPC requests that await their response
    lastCall,     \* history: the most recent rpc-call (caller, method, parity)
    env,          \* process.env: AGENT_NOTIFY_TOKEN, AGENT_NOTIFY_USER_ID
    reply,        \* the most recent reply of POST /v1/agent-notify
    lastNotify,   \* history: the most recent agent-notify request
    mergeA,       \* chat client: first argument of mergeMessages
    mergeB,       \* chat client: second argument of mergeMessages
    merged,       \* chat client: what mergeMessages returned
    mergeDone,    \* chat client: mergeMessages has returned
    br,           \* the raw upgrade bridge: request, channels, bytes, timer
    chat          \* chat client: the state of the useOpenClawChat hook

vars == <<pc, chan, auth, verified, connection, registry, gauge, errors,
          forced, verifyCalls, handlers, rpcListeners, emittedBy, lastEmit,
          lastReg, displaced, history, rpcFrames, pendingRpc, lastCall,
          env, reply, lastNotify, mergeA, mergeB, merged, mergeDone, br,
          chat>>

\* ----------------------------------------------------------- eventRouter
\* JavaScript falsiness of an optional string.
Falsy(v) == v = Undefined \/ v = ""

getConnections(reg, userId) ==
    IF userId \in DOMAIN reg THEN reg[userId] ELSE Undefined

ConnectionsOf(reg, userId) ==
    IF userId \in DOMAIN reg THEN reg[userId] ELSE {}

addConnection(reg, userId, conn) ==
    [u \in DOMAIN reg \cup {userId} |->
        IF u = userId THEN ConnectionsOf(reg, u) \cup {conn} ELSE reg[u]]

removeConnection_ByScope(reg, userId, conn) ==
    [u \in DOMAIN reg |->
        IF u = userId
        THEN {c \in reg[u] : \/ c.connectionType # conn.connectionType
                             \/ c.sessionId # conn.sessionId
                             \/ c.machineId # conn.machineId}
        ELSE reg[u]]

removeConnection(reg, userId, conn) ==
    [u \in DOMAIN reg |-> IF u = userId THEN reg[u] \ {conn} ELSE reg[u]]

buildMachineActivityEphemeral(machineId, online) ==
    [type |-> "machine-activity", machineId |-> machineId, online |-> online]

MatchesFilter(conn, filter) ==
    CASE filter = "user-scoped-only" -> conn.connectionType = "user-scoped"
      [] OTHER -> TRUE

emitEphemeral(reg, userId, payload, filter) ==
    [userId |-> userId, payload |-> payload, filter |-> filter,
     recipients |-> {c.socket : c \in {d \in ConnectionsOf(reg, userId) :
                                           MatchesFilter(d, filter)}}]

\* ------------------------------------------------------------- rpcHandler
rpcRegister(table, method, s) ==
    [m \in DOMAIN table \cup {method} |-> IF m = method THEN s ELSE table[m]]

rpcTeardown_ByUser(table, s) == <<>>

rpcTeardown(table, s) ==
    [m \in {k \in DOMAIN table : table[k] # s} |-> table[m]]

\* routeRequest: the frames sent for a call of `method` by socket s.
routeFrames_Silent(table, method, s) ==
    IF method \in DOMAIN table
    THEN {[to |-> table[method], kind |-> "request", method |-> method]}
    ELSE {}

routeFrames(table, method, s) ==
    IF method \in DOMAIN table
    THEN {[to |-> table[method], kind |-> "request", method |-> method]}
    ELSE {[to |-> s, kind |-> "no-listener", method |-> method]}

\* routeRequest: a forwarded request is recorded until its response.
routePending(table, method, s, pending) ==
    IF method \in DOMAIN table
    THEN pending \cup {[caller |-> s, target |-> table[method],
                        method |-> method]}
    ELSE pending

\* Teardown of s: the requests that s was serving fail, once each; those
\* that s was waiting for are forgotten.
rpcFailedBy(pending, s) == {p \in pending : p.target = s /\ p.caller # s}

rpcFailFrames(pending, s, frames) ==
    IF rpcFailedBy(pending, s) = {} THEN frames
    ELSE {[to |-> p.caller, kind |-> "listener-disconnected",
           method |-> p.method] : p \in rpcFailedBy(pending, s)}

rpcDropPending(pending, s) ==
    {p \in pending : p.target # s /\ p.caller # s}

\* ------------------------------------------------- the connection handler
MissingToken(a) == Falsy(a.token)

MissingSessionId(a) == a.clientType = "session-scoped" /\ Falsy(a.sessionId)

MissingMachineId_Skipped(a) == FALSE

MissingMachineId(a) == a.clientType = "machine-scoped" /\ Falsy(a.machineId)

HandshakeError_ScopeFirst(a) ==
    IF MissingSessionId(a) THEN ErrMissingSessionId
    ELSE IF MissingMachineId(a) THEN ErrMissingMachineId
    ELSE IF MissingToken(a) THEN ErrMissingToken
    ELSE Null

\* The first failing presence check, in the order of the code.
HandshakeError(a) ==
    IF MissingToken(a) THEN ErrMissingToken
    ELSE IF MissingSessionId(a) THEN ErrMissingSessionId
    ELSE IF MissingMachineId(a) THEN ErrMissingMachineId
    ELSE Null

VerifyRejected_Never(v) == FALSE

\* `if (!verified)`
VerifyRejected(v) == v = Null

MetadataClientType(a) ==
    IF Falsy(a.clientType) THEN "user-scoped" ELSE a.clientType

MakeConnection_NoSocket(a, s, userId) ==
    IF MetadataClientType(a) = "session-scoped" /\ ~Falsy(a.sessionId)
    THEN [connectionType |-> "session-scoped", socket |-> 0, userId |-> userId,
          sessionId |-> a.sessionId, machineId |-> Undefined]
    ELSE IF MetadataClientType(a) = "machine-scoped" /\ ~Falsy(a.machineId)
    THEN [connectionType |-> "machine-scoped", socket |-> 0, userId |-> userId,
          sessionId |-> Undefined, machineId |-> a.machineId]
    ELSE [connectionType |-> "user-scoped", socket |-> 0, userId |-> userId,
          sessionId |-> Undefined, machineId |-> Undefined]

MakeConnection(a, s, userId) ==
    IF MetadataClientType(a) = "session-scoped" /\ ~Falsy(a.sessionId)
    THEN [connectionType |-> "session-scoped", socket |-> s, userId |-> userId,
          sessionId |-> a.sessionId, machineId |-> Undefined]
    ELSE IF MetadataClientType(a) = "machine-scoped" /\ ~Falsy(a.machineId)
    THEN [connectionType |-> "machine-scoped", socket |-> s, userId |-> userId,
          sessionId |-> Undefined, machineId |-> a.machineId]
    ELSE [connectionType |-> "user-scoped", socket |-> s, userId |-> userId,
          sessionId |-> Undefined, machineId |-> Undefined]

MachineActivityFilter_All == "all"

MachineActivityFilter == "user-scoped-only"

RpcMapOf_Shared(userId) == "uA"

\* The key under which the listener map handed to rpcHandler is kept:
\* rpcListeners.get(userId) / rpcListeners.set(userId, ...).
RpcMapOf(userId) == userId

\* rpcListeners.get(userId), created empty when absent.
UserRpcListeners(all, userId) ==
    IF userId \in DOMAIN all THEN all
    ELSE [u \in DOMAIN all \cup {userId} |->
             IF u = userId THEN <<>> ELSE all[u]]

\* socket.emit('error', ...); socket.disconnect()
Reject(s, message) ==
    /\ errors' = [errors EXCEPT ![s] = Append(@, message)]
    /\ forced' = forced \cup {s}
    /\ chan' = [chan EXCEPT ![s] = "closed"]
    /\ pc' = [pc EXCEPT ![s] = "rejected"]

ServerState == <<registry, gauge, handlers, rpcListeners, emittedBy, lastEmit,
                 connection>>

\* The variables of the other components, which the connection handler
\* does not touch.
RpcCalls == <<rpcFrames, pendingRpc, lastCall>>

Notify == <<env, reply, lastNotify>>

Merging == <<mergeA, mergeB, merged, mergeDone>>

NonRpc == <<Notify, Merging, br, chat>>

NonNotify == <<RpcCalls, Merging, br, chat>>

NonServer == <<RpcCalls, Notify, br, chat>>

Elsewhere == <<RpcCalls, Notify, Merging, br, chat>>

Ghosts == <<lastReg, displaced, history, Elsewhere>>

\* io.on("connection"): the synchronous part, up to the await.
Connection(s) ==
    /\ pc[s] = "none"
    /\ \A t \in Sockets : t < s => pc[t] # "none"
    /\ \E a \in Handshakes :
           /\ auth' = [auth EXCEPT ![s] = a]
           /\ IF HandshakeError(a) # Null
              THEN /\ Reject(s, HandshakeError(a))
                   /\ UNCHANGED verifyCalls
              ELSE /\ verifyCalls' = [verifyCalls EXCEPT ![s] = @ + 1]
                   /\ pc' = [pc EXCEPT ![s] = "verifying"]
                   /\ chan' = [chan EXCEPT ![s] = "open"]
                   /\ UNCHANGED <<errors, forced>>
    /\ UNCHANGED <<verified, ServerState, Ghosts>>

\* The verifier raises: the await throws and the handler ends there.
VerifyThrow(s) ==
    /\ pc[s] = "verifying"
    /\ verified' = [verified EXCEPT ![s] = Throw]
    /\ pc' = [pc EXCEPT ![s] = "threw"]
    /\ UNCHANGED <<chan, auth, errors, forced, verifyCalls, ServerState, Ghosts>>

\* The rest of the handler for a verified identity.
Admit(s, userId) ==
    LET conn == MakeConnection(auth[s], s, userId)
        reg1 == addConnection(registry, userId, conn)
        payload == buildMachineActivityEphemeral(auth[s].machineId, TRUE)
    IN /\ connection' = [connection EXCEPT ![s] = conn]
       /\ registry' = reg1
       /\ gauge' = [gauge EXCEPT ![conn.connectionType] = @ + 1]
       /\ IF conn.connectionType = "machine-scoped"
          THEN /\ emittedBy' = [emittedBy EXCEPT ![s] = Append(@, payload)]
               /\ lastEmit' = emitEphemeral(reg1, userId, payload,
                                            MachineActivityFilter)
          ELSE UNCHANGED <<emittedBy, lastEmit>>
       /\ rpcListeners' = UserRpcListeners(rpcListeners, RpcMapOf(userId))
       /\ handlers' = [handlers EXCEPT ![s] = HandlerNames]
       /\ pc' = [pc EXCEPT ![s] = "active"]
       /\ UNCHANGED <<chan, errors, forced>>

\* The verifier resolves, with an identity or with none.
VerifyResolve(s) ==
    /\ pc[s] = "verifying"
    /\ \E v \in Users \cup {Null} :
           /\ verified' = [verified EXCEPT ![s] = v]
           /\ IF VerifyRejected(v)
              THEN /\ Reject(s, ErrInvalidToken)
                   /\ UNCHANGED ServerState
              ELSE Admit(s, v)
    /\ UNCHANGED <<auth, verifyCalls, Ghosts>>

\* The listeners attached to 'disconnect': the one of startSocket, then the
\* one of rpcHandler.
Disconnect(s) ==
    /\ pc[s] = "active"
    /\ chan[s] = "open"
    /\ LET conn == connection[s]
           userId == verified[s]
           reg1 == removeConnection(registry, userId, conn)
           machine == conn.connectionType = "machine-scoped"
           payload == buildMachineActivityEphemeral(conn.machineId, FALSE)
       IN /\ registry' = reg1
          /\ gauge' = [gauge EXCEPT ![conn.connectionType] = @ - 1]
          /\ IF machine
             THEN /\ emittedBy' = [emittedBy EXCEPT ![s] = Append(@, payload)]
                  /\ lastEmit' = emitEphemeral(reg1, userId, payload,
                                               MachineActivityFilter)
             ELSE UNCHANGED <<emittedBy, lastEmit>>
          /\ rpcListeners' = [rpcListeners EXCEPT
                                ![RpcMapOf(userId)] = rpcTeardown(@, s)]
    /\ rpcFrames' = rpcFailFrames(pendingRpc, s, rpcFrames)
    /\ pendingRpc' = rpcDropPending(pendingRpc, s)
    /\ chan' = [chan EXCEPT ![s] = "closed"]
    /\ pc' = [pc EXCEPT ![s] = "closed"]
    /\ UNCHANGED <<auth, verified, connection, errors, forced, verifyCalls,
                   handlers, lastReg, displaced, history, lastCall, NonRpc>>

\* The channel closes while no 'disconnect' listener is attached.
CloseUnheard(s) ==
    /\ pc[s] \in {"verifying", "threw"}
    /\ chan[s] = "open"
    /\ chan' = [chan EXCEPT ![s] = "closed"]
    /\ UNCHANGED <<pc, auth, verified, errors, forced, verifyCalls,
                   ServerState, Ghosts>>

\* An active socket declares that it serves a method.
RpcRegister(s, m) ==
    /\ pc[s] = "active"
    /\ chan[s] = "open"
    /\ LET userId == RpcMapOf(verified[s])
           old == IF m \in DOMAIN rpcListeners[userId]
                  THEN {rpcListeners[userId][m]} ELSE {}
       IN /\ rpcListeners' = [rpcListeners EXCEPT
                                ![userId] = rpcRegister(@, m, s)]
          /\ lastReg' = [lastReg EXCEPT ![userId][m] = s]
          /\ displaced' = [displaced EXCEPT
                             ![userId][m] = (@ \cup old) \ {s}]
    /\ UNCHANGED <<pc, chan, auth, verified, connection, registry, gauge,
                   errors, forced, verifyCalls, handlers, emittedBy, lastEmit,
                   history, Elsewhere>>

\* Nothing has happened in the other components.
InitRpcCalls ==
    /\ rpcFrames = {}
    /\ pendingRpc = {}
    /\ lastCall = [caller |-> 0, method |-> Null, parity |-> 0]

NoReply == [code |-> 0, body |-> Null]

InitNotify ==
    /\ env = [AGENT_NOTIFY_TOKEN |-> Undefined,
              AGENT_NOTIFY_USER_ID |-> Undefined]
    /\ reply = NoReply
    /\ lastNotify = [token |-> Undefined, message |-> Null, emits |-> 0,
                     parity |-> 0]

InitMerging ==
    /\ mergeA = <<>>
    /\ mergeB = <<>>
    /\ merged = <<>>
    /\ mergeDone = FALSE

\* No upgrade request has arrived.
NoRequest == [method |-> Null, url |-> <<>>, headers |-> <<>>, head |-> <<>>]

BridgeIdle ==
    [phase |-> "idle",       \* idle, passed (left to socket.io) or bridged
     req |-> NoRequest,
     peer |-> "none",        \* the upgraded socket: none, open, destroyed
     up |-> "none",          \* upstream: none, connecting, open, destroyed
     piped |-> FALSE,        \* the two pipe() calls have been made
     listeners |-> {},       \* listeners the bridge attached to the socket
     events |-> {},          \* 'error' and 'close' events not yet dispatched
     peerWrote |-> <<>>,     \* history: bytes the peer sent after the request
     peerBuf |-> <<>>,       \* bytes of the peer not yet read from the socket
     upRecv |-> <<>>,        \* chunks written to upstream, in order
     gwWrote |-> <<>>,       \* history: bytes the gateway sent
     gwBuf |-> <<>>,         \* bytes of the gateway not yet read from upstream
     peerRecv |-> <<>>,      \* bytes written to the socket (bytesWritten)
     timer |-> "none",       \* engine.io no-match timer: none, armed, fired
     timerSaw |-> 0,         \* history: bytesWritten when the timer fired
     timerKilled |-> FALSE]  \* history: the timer closed the socket

InitBridge == br = BridgeIdle

\* The hook before its first render: nothing loaded, nothing connected.
NoSettings == [token |-> Null, url |-> Null]

ChatFresh ==
    [life |-> "fresh",        \* fresh, mounted or unmounted
     cfg |-> NoSettings,      \* openclawToken and openclawUrl
     messages |-> <<>>,       \* the messages state, newest first
     status |-> "disconnected",
     isStreaming |-> FALSE,
     ws |-> "none",           \* wsRef.current: none, connecting, open,
                              \* failed (error fired, close to come), closed
     handlers |-> FALSE,      \* onclose and onerror are set on wsRef.current
     wsCfg |-> NoSettings,    \* the settings seen by those handlers
     connected |-> FALSE,     \* connectedRef.current
     stream |-> [active |-> FALSE, id |-> 0, text |-> <<>>],
                              \* currentStreamRef.current, when active
     timers |-> {},           \* pending reconnect timers
     persist |-> [pending |-> FALSE, msgs |-> <<>>],
                              \* the persist timer and the list it holds
     storage |-> [present |-> FALSE, msgs |-> <<>>],
                              \* the value stored under 'messages-v1'
     old |-> {},              \* replaced sockets that have not closed yet
     owed |-> {},             \* what the gateway still has to answer
     now |-> 1,               \* Date.now()
     sends |-> 0,             \* number of messages sent so far
     reconnected |-> FALSE,   \* history: a reconnect timer has run connect()
     cancelled |-> FALSE,     \* history: a cleanup cleared a pending timer
     staleOpened |-> FALSE,   \* history: a timer outlived a cleanup and ran
     oldReconnect |-> FALSE]  \* history: a replaced socket asked to reconnect

InitChat == chat = ChatFresh

InitElsewhere ==
    /\ InitRpcCalls
    /\ InitNotify
    /\ InitMerging
    /\ InitBridge
    /\ InitChat

Init ==
    /\ pc = [s \in Sockets |-> "none"]
    /\ chan = [s \in Sockets |-> "none"]
    /\ auth = [s \in Sockets |-> NoAuth]
    /\ verified = [s \in Sockets |-> Undefined]
    /\ connection = [s \in Sockets |-> NoConnection]
    /\ registry = <<>>
    /\ gauge = [t \in ConnectionTypes |-> 0]
    /\ errors = [s \in Sockets |-> <<>>]
    /\ forced = {}
    /\ verifyCalls = [s \in Sockets |-> 0]
    /\ handlers = [s \in Sockets |-> {}]
    /\ rpcListeners = <<>>
    /\ emittedBy = [s \in Sockets |-> <<>>]
    /\ lastEmit = NoEmit
    /\ lastReg = [u \in Users |-> [m \in Methods |-> 0]]
    /\ displaced = [u \in Users |-> [m \in Methods |-> {}]]
    /\ history = <<>>
    /\ InitElsewhere

Next ==
    \/ \E s \in Sockets : Connection(s)
    \/ \E s \in Sockets : VerifyThrow(s)
    \/ \E s \in Sockets : VerifyResolve(s)
    \/ \E s \in Sockets : Disconnect(s)
    \/ \E s \in Sockets : CloseUnheard(s)
    \/ \E s \in Sockets, m \in Methods : RpcRegister(s, m)

Spec == Init /\ [][Next]_vars


\* ------------------------------------------------ the RPC router in use
\* Sockets that were admitted as user-scoped connections register methods,
\* call them, answer and disconnect.
RpcAuth == [token |-> "tok", clientType |-> Undefined,
            sessionId |-> Undefined, machineId |-> Undefined]

RpcInit ==
    \E owner \in [Sockets -> Users] :
        LET present == {owner[s] : s \in Sockets}
        IN /\ pc = [s \in Sockets |-> "active"]
           /\ chan = [s \in Sockets |-> "open"]
           /\ auth = [s \in Sockets |-> RpcAuth]
           /\ verified = owner
           /\ connection = [s \in Sockets |->
                               MakeConnection(RpcAuth, s, owner[s])]
           /\ registry = [u \in present |->
                             {MakeConnection(RpcAuth, s, u) :
                                 s \in {t \in Sockets : owner[t] = u}}]
           /\ gauge = [t \in ConnectionTypes |->
                          IF t = "user-scoped" THEN NumSockets ELSE 0]
           /\ errors = [s \in Sockets |-> <<>>]
           /\ forced = {}
           /\ verifyCalls = [s \in Sockets |-> 1]
           /\ handlers = [s \in Sockets |-> HandlerNames]
           /\ rpcListeners = [u \in present |-> <<>>]
           /\ emittedBy = [s \in Sockets |-> <<>>]
           /\ lastEmit = NoEmit
           /\ lastReg = [u \in Users |-> [m \in Methods |-> 0]]
           /\ displaced = [u \in Users |-> [m \in Methods |-> {}]]
           /\ history = <<>>
           /\ InitElsewhere

\* An active socket calls a method of its user.
RpcCall(s, m) ==
    /\ pc[s] = "active"
    /\ chan[s] = "open"
    /\ LET table == rpcListeners[RpcMapOf(verified[s])]
       IN /\ rpcFrames' = routeFrames(table, m, s)
          /\ pendingRpc' = routePending(table, m, s, pendingRpc)
    /\ lastCall' = [caller |-> s, method |-> m,
                    parity |-> 1 - lastCall.parity]
    /\ UNCHANGED <<pc, chan, auth, verified, connection, registry, gauge,
                   errors, forced, verifyCalls, handlers, rpcListeners,
                   emittedBy, lastEmit, lastReg, displaced, history, NonRpc>>

\* The listener answers a forwarded request.
RpcRespond(p) ==
    /\ p \in pendingRpc
    /\ pc[p.target] = "active"
    /\ chan[p.target] = "open"
    /\ rpcFrames' = {[to |-> p.caller, kind |-> "response",
                      method |-> p.method]}
    /\ pendingRpc' = pendingRpc \ {p}
    /\ UNCHANGED <<pc, chan, auth, verified, connection, registry, gauge,
                   errors, forced, verifyCalls, handlers, rpcListeners,
                   emittedBy, lastEmit, lastReg, displaced, history, lastCall,
                   NonRpc>>

RpcNext ==
    \/ \E s \in Sockets, m \in Methods : RpcRegister(s, m)
    \/ \E s \in Sockets, m \in Methods : RpcCall(s, m)
    \/ \E p \in pendingRpc : RpcRespond(p)
    \/ \E s \in Sockets : Disconnect(s)

RpcSpec == RpcInit /\ [][RpcNext]_vars

\* -------------------------------------------------- POST /v1/agent-notify
EnvTokens == {Undefined, "", "secret"}
EnvUserIds == {Undefined, ""} \cup Users
HeaderTokens == {Undefined, "", "secret", "wrong"}
NotifyMessages == {"build done"}

\* The handshakes with which the sockets present at start were admitted.
NotifyAuths ==
    {a \in Handshakes : /\ HandshakeError(a) = Null
                        /\ a.clientType \in {Undefined, "session-scoped"}}

\* `!expectedToken || token !== expectedToken`
Unauthorized_NoEmptyCheck(expectedToken, token) == token # expectedToken

Unauthorized(expectedToken, token) ==
    Falsy(expectedToken) \/ token # expectedToken

\* `!connections || connections.size === 0`
NoTargets_AbsentOnly(reg, userId) == userId \notin DOMAIN reg

NoTargets(reg, userId) ==
    userId \notin DOMAIN reg \/ Cardinality(reg[userId]) = 0

\* No recipientFilter is passed.
NotifyFilter == Undefined

NotificationPayload(message) == [type |-> "notification", message |-> message]

\* The server with some sockets already admitted (user- or session-scoped)
\* and the others not yet connected, in each configuration of the process.
NotifyInit ==
    \E owner \in [Sockets -> Users \cup {Null}], a \in [Sockets -> NotifyAuths] :
        LET here == {s \in Sockets : owner[s] # Null}
            present == {owner[s] : s \in here}
            conn(s) == MakeConnection(a[s], s, owner[s])
        IN /\ \A s, t \in Sockets : (s < t /\ t \in here) => s \in here
           /\ \A s \in Sockets \ here : a[s] = RpcAuth
           /\ pc = [s \in Sockets |-> IF s \in here THEN "active" ELSE "none"]
           /\ chan = [s \in Sockets |-> IF s \in here THEN "open" ELSE "none"]
           /\ auth = [s \in Sockets |-> IF s \in here THEN a[s] ELSE NoAuth]
           /\ verified = [s \in Sockets |->
                             IF s \in here THEN owner[s] ELSE Undefined]
           /\ connection = [s \in Sockets |->
                               IF s \in here THEN conn(s) ELSE NoConnection]
           /\ registry = [u \in present |->
                             {conn(s) : s \in {t \in here : owner[t] = u}}]
           /\ gauge = [t \in ConnectionTypes |->
                          Cardinality({s \in here : conn(s).connectionType = t})]
           /\ errors = [s \in Sockets |-> <<>>]
           /\ forced = {}
           /\ verifyCalls = [s \in Sockets |-> IF s \in here THEN 1 ELSE 0]
           /\ handlers = [s \in Sockets |->
                             IF s \in here THEN HandlerNames ELSE {}]
           /\ rpcListeners = [u \in present |-> <<>>]
           /\ emittedBy = [s \in Sockets |-> <<>>]
           /\ lastEmit = NoEmit
           /\ lastReg = [u \in Users |-> [m \in Methods |-> 0]]
           /\ displaced = [u \in Users |-> [m \in Methods |-> {}]]
           /\ history = <<>>
           /\ InitRpcCalls
           /\ InitMerging
           /\ InitBridge
           /\ InitChat
           /\ env \in [AGENT_NOTIFY_TOKEN : EnvTokens,
                        AGENT_NOTIFY_USER_ID : EnvUserIds]
           /\ reply = NoReply
           /\ lastNotify = [token |-> Undefined, message |-> Null,
                            emits |-> 0, parity |-> 0]

\* The route handler, for a request with header X-Agent-Token = token (or
\* without the header) and body {message}.
AgentNotify(token, message) ==
    LET expectedToken == env.AGENT_NOTIFY_TOKEN
        userId == env.AGENT_NOTIFY_USER_ID
        request(n) == [token |-> token, message |-> message, emits |-> n,
                       parity |-> 1 - lastNotify.parity]
    IN /\ IF Unauthorized(expectedToken, token)
          THEN /\ reply' = [code |-> 401, body |-> "Unauthorized"]
               /\ lastNotify' = request(0)
               /\ UNCHANGED lastEmit
          ELSE IF Falsy(userId)
          THEN /\ reply' = [code |-> 503, body |-> "No active connections"]
               /\ lastNotify' = request(0)
               /\ UNCHANGED lastEmit
          ELSE IF NoTargets(registry, userId)
          THEN /\ reply' = [code |-> 503, body |-> "No active connections"]
               /\ lastNotify' = request(0)
               /\ UNCHANGED lastEmit
          ELSE /\ lastEmit' = emitEphemeral(registry, userId,
                                            NotificationPayload(message),
                                            NotifyFilter)
               /\ lastNotify' = request(1)
               /\ reply' = [code |-> 200, body |-> "ok"]
       /\ UNCHANGED <<pc, chan, auth, verified, connection, registry, gauge,
                      errors, forced, verifyCalls, handlers, rpcListeners,
                      emittedBy, lastReg, displaced, history, NonNotify, env>>

NotifyNext ==
    \/ \E token \in HeaderTokens, message \in NotifyMessages :
          AgentNotify(token, message)
    \/ \E s \in Sockets : Disconnect(s)

NotifySpec == NotifyInit /\ [][NotifyNext]_vars

\* ------------------------------------------ chat client: mergeMessages
MaxMerge == 2
KeyContentLen == 40

Roles == {"user", "assistant"}
Timestamps == {1, 2}

\* Message texts as sequences of characters: two that agree on their first
\* 40 characters and differ in the 41st.
Forty == [i \in 1..KeyContentLen |-> "a"]
Contents == {Forty \o <<"x">>, Forty \o <<"y">>}

ChatMessages == [role : Roles, content : Contents, timestamp : Timestamps]

MessageLists == UNION {[1..n -> ChatMessages] : n \in 0..MaxMerge}

\* content.slice(0, n)
Slice(content, n) ==
    SubSeq(content, 1, IF Len(content) < n THEN Len(content) ELSE n)

\* `${m.role}|${m.timestamp}|${m.content.slice(0, 40)}`
MergeKey(m) == <<m.role, m.timestamp, Slice(m.content, KeyContentLen)>>

\* The loop over [...a, ...b]: a message is kept when its key is new.
RECURSIVE Dedup(_, _, _)
Dedup(ms, seen, result) ==
    IF ms = <<>> THEN result
    ELSE IF MergeKey(Head(ms)) \in seen
         THEN Dedup(Tail(ms), seen, result)
         ELSE Dedup(Tail(ms), seen \cup {MergeKey(Head(ms))},
                    Append(result, Head(ms)))

\* result.sort((x, y) => y.timestamp - x.timestamp): stable, newest first.
RECURSIVE SortNewestFirst(_)
SortNewestFirst(ms) ==
    IF ms = <<>> THEN <<>>
    ELSE LET top == CHOOSE t \in {ms[i].timestamp : i \in 1..Len(ms)} :
                        \A i \in 1..Len(ms) : ms[i].timestamp <= t
         IN SelectSeq(ms, LAMBDA m : m.timestamp = top)
              \o SortNewestFirst(SelectSeq(ms, LAMBDA m : m.timestamp # top))

mergeMessages(a, b) == SortNewestFirst(Dedup(a \o b, {}, <<>>))

MergeInit ==
    /\ pc = [s \in Sockets |-> "none"]
    /\ chan = [s \in Sockets |-> "none"]
    /\ auth = [s \in Sockets |-> NoAuth]
    /\ verified = [s \in Sockets |-> Undefined]
    /\ connection = [s \in Sockets |-> NoConnection]
    /\ registry = <<>>
    /\ gauge = [t \in ConnectionTypes |-> 0]
    /\ errors = [s \in Sockets |-> <<>>]
    /\ forced = {}
    /\ verifyCalls = [s \in Sockets |-> 0]
    /\ handlers = [s \in Sockets |-> {}]
    /\ rpcListeners = <<>>
    /\ emittedBy = [s \in Sockets |-> <<>>]
    /\ lastEmit = NoEmit
    /\ lastReg = [u \in Users |-> [m \in Methods |-> 0]]
    /\ displaced = [u \in Users |-> [m \in Methods |-> {}]]
    /\ history = <<>>
    /\ InitRpcCalls
    /\ InitNotify
    /\ InitBridge
    /\ InitChat
    /\ mergeA \in MessageLists
    /\ mergeB \in MessageLists
    /\ merged = <<>>
    /\ mergeDone = FALSE

Merge ==
    /\ ~mergeDone
    /\ merged' = mergeMessages(mergeA, mergeB)
    /\ mergeDone' = TRUE
    /\ UNCHANGED <<pc, chan, auth, verified, connection, registry, gauge,
                   errors, forced, verifyCalls, handlers, rpcListeners,
                   emittedBy, lastEmit, lastReg, displaced, history,
                   NonServer, mergeA, mergeB>>

MergeNext == Merge

MergeSpec == MergeInit /\ [][MergeNext]_vars

\* ---------------------------------------------------- raw upgrade bridge
MaxBytes == 2

SOCKET_IO_PATH == <<"/v1/updates">>

Bytes == {"0", "1"}

\* A URL is a sequence of pieces; the piece "?" is the character '?'.
Urls == {<<"/v1/updates">>,
         <<"/v1/updates", "?", "EIO=4">>,
         <<"/v1/updates/">>,
         <<"/", "?", "a=b", "?", "c">>}

\* req.headers: one plain header and one whose value is an array.
RequestHeaders ==
    << [k |-> "upgrade", isArray |-> FALSE, v |-> <<"websocket">>],
       [k |-> "set-cookie", isArray |-> TRUE, v |-> <<"a=1", "b=2">>] >>

Requests ==
    [method : {"GET"}, url : Urls, headers : {RequestHeaders},
     head : {<<>>, <<"1">>}]

\* s.split('?')[0] on a sequence of pieces.
RECURSIVE BeforeQuery(_)
BeforeQuery(url) ==
    IF url = <<>> \/ Head(url) = "?" THEN <<>>
    ELSE <<Head(url)>> \o BeforeQuery(Tail(url))

RequestPath_WithQuery(url) == IF url = Undefined THEN <<"/">> ELSE url

\* (req.url ?? '/').split('?')[0]
RequestPath(url) ==
    IF url = Undefined THEN <<"/">> ELSE BeforeQuery(url)

\* v.join(', ')
RECURSIVE Join(_)
Join(v) ==
    IF Len(v) <= 1 THEN v ELSE <<Head(v), ", ">> \o Join(Tail(v))

\* `${k}: ${Array.isArray(v) ? v.join(', ') : v}`
HeaderLine(h) == <<h.k, ": ">> \o (IF h.isArray THEN Join(h.v) ELSE h.v)

\* .join('\r\n')
RECURSIVE HeaderLines(_)
HeaderLines(hs) ==
    IF hs = <<>> THEN <<>>
    ELSE IF Len(hs) = 1 THEN HeaderLine(Head(hs))
    ELSE HeaderLine(Head(hs)) \o <<"\r\n">> \o HeaderLines(Tail(hs))

\* `${req.method} ${req.url} HTTP/1.1`
RequestLine(req) ==
    <<req.method, " ">> \o req.url \o <<" HTTP/1.1">>

Handshake_NoBlankLine(req) ==
    RequestLine(req) \o <<"\r\n">> \o HeaderLines(req.headers) \o <<"\r\n">>

\* `${requestLine}\r\n${headers}\r\n\r\n`
Handshake(req) ==
    RequestLine(req) \o <<"\r\n">> \o HeaderLines(req.headers)
      \o <<"\r\n\r\n">>

ConnectWrites_NoHead(req) == <<Handshake(req)>>

\* The writes of the 'connect' listener, one chunk per upstream.write.
ConnectWrites(req) ==
    <<Handshake(req)>> \o (IF Len(req.head) > 0 THEN <<req.head>> ELSE <<>>)

\* The channel that the listener of an event destroys.
Destroys_NoPeerClose(ev) ==
    CASE ev = "up-error" -> "peer"
      [] ev = "up-close" -> "peer"
      [] ev = "peer-error" -> "up"
      [] OTHER -> "none"

Destroys(ev) ==
    CASE ev = "up-error" -> "peer"
      [] ev = "up-close" -> "peer"
      [] ev = "peer-error" -> "up"
      [] ev = "peer-close" -> "up"

\* socket.destroy() / upstream.destroy(): closes an open channel, whose
\* 'close' event follows; does nothing on a destroyed one.
DestroyChannel(b, which) ==
    IF which = "peer" /\ b.peer = "open"
    THEN [b EXCEPT !.peer = "destroyed", !.events = @ \cup {"peer-close"}]
    ELSE IF which = "up" /\ b.up \in {"connecting", "open"}
    THEN [b EXCEPT !.up = "destroyed", !.events = @ \cup {"up-close"}]
    ELSE b

ServerVars == <<pc, chan, auth, verified, connection, registry, gauge, errors,
                forced, verifyCalls, handlers, rpcListeners, emittedBy,
                lastEmit, lastReg, displaced, history>>

NonBridge == <<ServerVars, RpcCalls, Notify, Merging, chat>>

\* The prepended 'upgrade' listener, then the one of engine.io, which arms
\* its no-match timer for a path that is not its own.
Upgrade(req) ==
    /\ br.phase = "idle"
    /\ br' = IF RequestPath(req.url) # SOCKET_IO_PATH
             THEN [br EXCEPT !.phase = "bridged", !.req = req,
                             !.peer = "open", !.up = "connecting",
                             !.listeners = {"error", "close"},
                             !.peerWrote = req.head,
                             !.timer = "armed"]
             ELSE [br EXCEPT !.phase = "passed", !.req = req,
                             !.peer = "open"]
    /\ UNCHANGED NonBridge

\* upstream 'connect': replay the handshake, then pipe both ways.
Connect ==
    /\ br.up = "connecting"
    /\ br' = [br EXCEPT !.up = "open",
                        !.upRecv = @ \o ConnectWrites(br.req),
                        !.piped = TRUE]
    /\ UNCHANGED NonBridge

\* The connection to the gateway fails.
ConnectFail ==
    /\ br.up = "connecting"
    /\ br' = [br EXCEPT !.up = "destroyed",
                        !.events = @ \cup {"up-error", "up-close"}]
    /\ UNCHANGED NonBridge

\* The peer sends a byte; it waits in the socket until it is read.
PeerWrite(b) ==
    /\ br.phase = "bridged"
    /\ br.peer = "open"
    /\ Len(br.peerWrote) - Len(br.req.head) < MaxBytes
    /\ br' = [br EXCEPT !.peerWrote = Append(@, b), !.peerBuf = Append(@, b)]
    /\ UNCHANGED NonBridge

\* socket.pipe(upstream) moves the next byte.
PipeToGateway ==
    /\ br.piped /\ br.peer = "open" /\ br.up = "open"
    /\ br.peerBuf # <<>>
    /\ br' = [br EXCEPT !.upRecv = Append(@, <<Head(br.peerBuf)>>),
                        !.peerBuf = Tail(@)]
    /\ UNCHANGED NonBridge

\* The gateway sends a byte.
GatewayWrite(b) ==
    /\ br.up = "open"
    /\ Len(br.gwWrote) < MaxBytes
    /\ br' = [br EXCEPT !.gwWrote = Append(@, b), !.gwBuf = Append(@, b)]
    /\ UNCHANGED NonBridge

\* upstream.pipe(socket) moves the next byte.
PipeToPeer ==
    /\ br.piped /\ br.peer = "open" /\ br.up = "open"
    /\ br.gwBuf # <<>>
    /\ br' = [br EXCEPT !.peerRecv = Append(@, Head(br.gwBuf)),
                        !.gwBuf = Tail(@)]
    /\ UNCHANGED NonBridge

\* The peer's channel fails (error, then close) or closes.
PeerGone(withError) ==
    /\ br.phase = "bridged"
    /\ br.peer = "open"
    /\ br' = [br EXCEPT !.peer = "destroyed",
                        !.events = @ \cup (IF withError
                                            THEN {"peer-error", "peer-close"}
                                            ELSE {"peer-close"})]
    /\ UNCHANGED NonBridge

\* The gateway's channel fails or closes after it was established.
GatewayGone(withError) ==
    /\ br.up = "open"
    /\ br' = [br EXCEPT !.up = "destroyed",
                        !.events = @ \cup (IF withError
                                            THEN {"up-error", "up-close"}
                                            ELSE {"up-close"})]
    /\ UNCHANGED NonBridge

\* A pending event runs its listener; 'error' comes before 'close'.
Dispatch(ev) ==
    /\ ev \in br.events
    /\ ev = "peer-close" => "peer-error" \notin br.events
    /\ ev = "up-close" => "up-error" \notin br.events
    /\ br' = DestroyChannel([br EXCEPT !.events = @ \ {ev}], Destroys(ev))
    /\ UNCHANGED NonBridge

\* The no-match timer of engine.io: it closes a socket that is still
\* writable and has no byte written.
TimerFires ==
    /\ br.timer = "armed"
    /\ br' = IF br.peer = "open" /\ Len(br.peerRecv) = 0
             THEN [DestroyChannel(br, "peer") EXCEPT
                      !.timer = "fired", !.timerSaw = Len(br.peerRecv),
                      !.timerKilled = TRUE]
             ELSE [br EXCEPT !.timer = "fired",
                             !.timerSaw = Len(br.peerRecv)]
    /\ UNCHANGED NonBridge

BridgeNext ==
    \/ \E req \in Requests : Upgrade(req)
    \/ Connect
    \/ ConnectFail
    \/ \E b \in Bytes : PeerWrite(b)
    \/ PipeToGateway
    \/ \E b \in Bytes : GatewayWrite(b)
    \/ PipeToPeer
    \/ \E e \in BOOLEAN : PeerGone(e)
    \/ \E e \in BOOLEAN : GatewayGone(e)
    \/ \E ev \in {"peer-error", "peer-close", "up-error", "up-close"} :
          Dispatch(ev)
    \/ TimerFires

BridgeSpec == Init /\ [][BridgeNext]_vars

\* --------------------------------------------------- the chat client hook
MaxSends == 2
MAX_PERSISTED == 200

\* Date.now() stays within 1..ClockMax.
ClockMax == 2

ChatSettings ==
    {[token |-> Null, url |-> "u1"], [token |-> "t1", url |-> Null],
     [token |-> "t1", url |-> "u1"], [token |-> "t2", url |-> "u1"]}

\* `!openclawToken || !openclawUrl`
Unconfigured(cfg) ==
    \/ cfg.token = Null \/ cfg.token = ""
    \/ cfg.url = Null \/ cfg.url = ""

UserText == <<"h", "i">>
Chunks == {<<"a">>, <<"a", "b">>}
\* The text of a final event, when the event carries one.
FinalTexts == {[given |-> FALSE, text |-> <<>>],
               [given |-> TRUE, text |-> <<"a", "b", "c">>]}

\* A message of the list.  Identifiers are random UUIDs: only the one of a
\* streamed reply is ever compared, so it is the number of the send that the
\* reply answers and every other identifier is 0.  An absent isStreaming is
\* FALSE.
Message(id, role, content, timestamp, isStreaming) ==
    [id |-> id, role |-> role, content |-> content, timestamp |-> timestamp,
     isStreaming |-> isStreaming]

\* Entries of a chat.history payload as the gateway sends them.
RawAssistant ==
    [role |-> "assistant", stamped |-> TRUE, timestamp |-> 2,
     content |-> [kind |-> "string", text |-> <<"o", "k">>, parts |-> <<>>]]
RawParts ==
    [role |-> "user", stamped |-> FALSE, timestamp |-> 0,
     content |-> [kind |-> "parts", text |-> <<>>,
                  parts |-> << [type |-> "text", text |-> <<"o">>],
                               [type |-> "image", text |-> <<"x">>],
                               [type |-> "text", text |-> <<>>],
                               [type |-> "text", text |-> <<"k">>] >>]]
RawSystem ==
    [role |-> "system", stamped |-> TRUE, timestamp |-> 1,
     content |-> [kind |-> "string", text |-> <<"o", "k">>, parts |-> <<>>]]
RawBlank ==
    [role |-> "assistant", stamped |-> TRUE, timestamp |-> 1,
     content |-> [kind |-> "string", text |-> <<" ">>, parts |-> <<>>]]
RawNoContent ==
    [role |-> "user", stamped |-> TRUE, timestamp |-> 1,
     content |-> [kind |-> "none", text |-> <<>>, parts |-> <<>>]]

HistoryReplies ==
    {<<RawAssistant>>, <<RawSystem, RawBlank, RawParts, RawNoContent>>}

\* .filter((c) => c.type === 'text').map((c) => String(c.text ?? '')).join('')
RECURSIVE JoinTextParts(_)
JoinTextParts(parts) ==
    IF parts = <<>> THEN <<>>
    ELSE (IF Head(parts).type = "text" THEN Head(parts).text ELSE <<>>)
           \o JoinTextParts(Tail(parts))

RawText(content) ==
    CASE content.kind = "string" -> content.text
      [] content.kind = "parts" -> JoinTextParts(content.parts)
      [] OTHER -> <<>>

\* m.content.trim() !== ''
NotBlank(text) == \E i \in 1..Len(text) : text[i] # " "

\* The chat.history payload as ChatMessage values.
RECURSIVE ApiMessages(_, _)
ApiMessages(raw, now) ==
    IF raw = <<>> THEN <<>>
    ELSE LET m == Head(raw)
             keep == /\ m.role \in {"user", "assistant"}
                     /\ NotBlank(RawText(m.content))
         IN (IF keep
             THEN <<Message(0, m.role, RawText(m.content),
                            IF m.stamped THEN m.timestamp ELSE now,
                            FALSE)>>
             ELSE <<>>) \o ApiMessages(Tail(raw), now)

PersistCut_KeepStreaming(msgs) ==
    SubSeq(msgs, 1, IF Len(msgs) < MAX_PERSISTED THEN Len(msgs)
                    ELSE MAX_PERSISTED)

\* msgs.filter((m) => !m.isStreaming).slice(0, MAX_PERSISTED)
PersistCut(msgs) ==
    LET kept == SelectSeq(msgs, LAMBDA m : ~m.isStreaming)
    IN SubSeq(kept, 1, IF Len(kept) < MAX_PERSISTED THEN Len(kept)
                       ELSE MAX_PERSISTED)

\* What 'messages-v1' holds after persistMessages(msgs); `ok` is whether
\* the store accepted the write.
persistMessages(storage, msgs, ok) ==
    IF ok THEN [present |-> TRUE, msgs |-> PersistCut(msgs)] ELSE storage

\* loadPersistedMessages(); `ok` is whether the store could be read.
loadPersistedMessages(storage, ok) ==
    IF ~ok \/ ~storage.present THEN <<>> ELSE storage.msgs

\* setAndPersist: the new list, and the persist timer restarted with it.
setAndPersist(c, next) ==
    [c EXCEPT !.messages = next, !.persist = [pending |-> TRUE, msgs |-> next]]

\* prev.map((m) => (m.id === id ? { ...m, content: text } : m))
MapContent(msgs, id, text) ==
    [i \in 1..Len(msgs) |->
        IF msgs[i].id = id THEN [msgs[i] EXCEPT !.content = text] ELSE msgs[i]]

\* prev.map((m) => (m.id === id ? { ...m, isStreaming: false } : m))
MapFinished(msgs, id) ==
    [i \in 1..Len(msgs) |->
        IF msgs[i].id = id THEN [msgs[i] EXCEPT !.isStreaming = FALSE]
        ELSE msgs[i]]

\* The socket in wsRef.current as a replaced socket, when it has yet to
\* close; `kept` says whether its onclose and onerror stay set.
Replaced(c, kept) ==
    IF c.ws \in {"connecting", "open", "failed"}
    THEN {[handled |-> kept /\ c.handlers,
           cfg |-> IF kept /\ c.handlers THEN c.wsCfg ELSE NoSettings]}
    ELSE {}

\* connect() of the render that saw the settings cfg.
connect(c, cfg) ==
    IF Unconfigured(cfg) THEN c
    ELSE [c EXCEPT !.old = @ \cup Replaced(c, FALSE),
                   !.ws = "connecting",
                   !.handlers = TRUE,
                   !.wsCfg = cfg,
                   !.owed = {},
                   !.connected = FALSE,
                   !.status = "connecting"]

\* clearTimeout(reconnectTimerRef.current)
ClearReconnect(timers) == {t \in timers : ~t.ref}

\* scheduleReconnect() of the render that saw the settings cfg.
scheduleReconnect(c, cfg) ==
    [c EXCEPT !.timers = {[t EXCEPT !.ref = FALSE] : t \in ClearReconnect(@)}
                           \cup {[cfg |-> cfg, ref |-> TRUE, stale |-> FALSE]}]

onclose_NoReconnect(c, cfg) ==
    [c EXCEPT !.connected = FALSE, !.status = "disconnected"]

\* ws.onclose (after ws.onerror when the socket failed).
onclose(c, cfg) ==
    scheduleReconnect([c EXCEPT !.connected = FALSE,
                                !.status = "disconnected"], cfg)

CleanupTimers_Kept(timers) == timers

\* The cleanup's clearTimeout(reconnectTimerRef.current).
CleanupTimers(timers) == ClearReconnect(timers)

\* The cleanup of the effect.  A reconnect timer that is still pending
\* afterwards is marked as armed before the cleanup.
cleanup(c) ==
    [c EXCEPT !.timers = {[t EXCEPT !.stale = TRUE] : t \in CleanupTimers(@)},
              !.cancelled = @ \/ CleanupTimers(c.timers) # c.timers,
              !.persist = [pending |-> FALSE, msgs |-> <<>>],
              !.old = @ \cup Replaced(c, FALSE),
              !.ws = "none",
              !.handlers = FALSE,
              !.wsCfg = NoSettings,
              !.owed = {}]

\* The body of the effect for the settings cfg.
effect(c, cfg) ==
    IF Unconfigured(cfg) THEN [c EXCEPT !.status = "disconnected"]
    ELSE connect(c, cfg)

\* canSend of HatchlingChatView, for a non-empty input text.
canSend(c) == c.status = "connected" /\ ~c.isStreaming

NonChat == <<ServerVars, RpcCalls, Notify, Merging, br>>

\* Nothing has happened outside the hook.
NonChatInit ==
    /\ pc = [s \in Sockets |-> "none"]
    /\ chan = [s \in Sockets |-> "none"]
    /\ auth = [s \in Sockets |-> NoAuth]
    /\ verified = [s \in Sockets |-> Undefined]
    /\ connection = [s \in Sockets |-> NoConnection]
    /\ registry = <<>>
    /\ gauge = [t \in ConnectionTypes |-> 0]
    /\ errors = [s \in Sockets |-> <<>>]
    /\ forced = {}
    /\ verifyCalls = [s \in Sockets |-> 0]
    /\ handlers = [s \in Sockets |-> {}]
    /\ rpcListeners = <<>>
    /\ emittedBy = [s \in Sockets |-> <<>>]
    /\ lastEmit = NoEmit
    /\ lastReg = [u \in Users |-> [m \in Methods |-> 0]]
    /\ displaced = [u \in Users |-> [m \in Methods |-> {}]]
    /\ history = <<>>
    /\ InitRpcCalls
    /\ InitNotify
    /\ InitMerging
    /\ InitBridge

\* The hook as first rendered: the settings, and the list loaded from an
\* empty store.
ChatInit ==
    /\ NonChatInit
    /\ \E cfg \in ChatSettings :
           chat = [ChatFresh EXCEPT
                      !.cfg = cfg,
                      !.messages = loadPersistedMessages(ChatFresh.storage,
                                                         TRUE)]

\* The effect runs for the first time.
Mount ==
    /\ chat.life = "fresh"
    /\ chat' = [effect(chat, chat.cfg) EXCEPT !.life = "mounted"]
    /\ UNCHANGED NonChat

\* openclawToken or openclawUrl changes: cleanup, then the effect again.
SettingsChange(cfg) ==
    /\ chat.life = "mounted"
    /\ cfg # chat.cfg
    /\ chat' = effect([cleanup(chat) EXCEPT !.cfg = cfg], cfg)
    /\ UNCHANGED NonChat

Unmount ==
    /\ chat.life = "mounted"
    /\ chat' = [cleanup(chat) EXCEPT !.life = "unmounted"]
    /\ UNCHANGED NonChat

\* ws.onopen: the connect request goes out.
WsOpens ==
    /\ chat.ws = "connecting"
    /\ chat' = [chat EXCEPT !.ws = "open", !.owed = {"hello"}]
    /\ UNCHANGED NonChat

\* handleMessage for { type: 'res', ok: true, payload: hello-ok }.
GatewayHello ==
    /\ chat.ws = "open"
    /\ "hello" \in chat.owed
    /\ chat' = [chat EXCEPT !.connected = TRUE,
                           !.status = "connected",
                           !.owed = (@ \ {"hello"}) \cup {"history"}]
    /\ UNCHANGED NonChat

\* handleMessage for the chat.history response.
GatewayHistory(raw) ==
    /\ chat.ws = "open"
    /\ "history" \in chat.owed
    /\ chat' = [setAndPersist(chat, mergeMessages(chat.messages,
                                                  ApiMessages(raw, chat.now)))
                  EXCEPT !.owed = @ \ {"history"}]
    /\ UNCHANGED NonChat

\* handleSend of the view, then sendMessage.
HandleSend ==
    /\ chat.life = "mounted"
    /\ canSend(chat)
    /\ chat.sends < MaxSends
    /\ chat' =
         IF chat.ws # "open" \/ ~chat.connected THEN chat
         ELSE [setAndPersist(chat,
                  <<Message(0, "user", UserText, chat.now, FALSE)>>
                    \o chat.messages)
                 EXCEPT !.isStreaming = TRUE,
                        !.owed = @ \cup {"run"},
                        !.sends = @ + 1]
    /\ UNCHANGED NonChat

\* handleMessage for a chat event with state 'delta'.
GatewayDelta(chunk) ==
    /\ chat.ws = "open"
    /\ "run" \in chat.owed
    /\ chat' =
         IF ~chat.stream.active
         THEN [setAndPersist(chat,
                  <<Message(chat.sends, "assistant", chunk, chat.now, TRUE)>>
                    \o chat.messages)
                 EXCEPT !.stream = [active |-> TRUE, id |-> chat.sends,
                                    text |-> chunk]]
         ELSE [setAndPersist(chat,
                  MapContent(chat.messages, chat.stream.id, chunk))
                 EXCEPT !.stream.text = chunk]
    /\ UNCHANGED NonChat

\* handleMessage for a chat event with state 'final', 'error' or 'aborted'.
GatewayEnd(state, text) ==
    /\ chat.ws = "open"
    /\ "run" \in chat.owed
    /\ LET finalText == IF text.given THEN text.text
                        ELSE IF chat.stream.active THEN chat.stream.text
                        ELSE <<>>
           c1 == IF ~chat.stream.active THEN chat
                 ELSE IF state = "final"
                 THEN setAndPersist(chat,
                        MapFinished(MapContent(chat.messages, chat.stream.id,
                                               finalText),
                                    chat.stream.id))
                 ELSE setAndPersist(chat,
                        MapFinished(chat.messages, chat.stream.id))
       IN chat' = [c1 EXCEPT !.stream = ChatFresh.stream,
                             !.isStreaming = FALSE,
                             !.owed = @ \ {"run"}]
    /\ UNCHANGED NonChat

\* ws.onerror: the socket failed; its close event follows.
WsError ==
    /\ chat.ws \in {"connecting", "open"}
    /\ chat' = [chat EXCEPT !.ws = "failed",
                           !.owed = {},
                           !.status = IF chat.handlers THEN "error" ELSE @]
    /\ UNCHANGED NonChat

\* The close event of the socket in wsRef.current.
WsCloses ==
    /\ chat.ws \in {"connecting", "open", "failed"}
    /\ LET c1 == [chat EXCEPT !.ws = "closed", !.owed = {}]
       IN chat' = IF chat.handlers THEN onclose(c1, chat.wsCfg) ELSE c1
    /\ UNCHANGED NonChat

\* A reconnect timer fires: connect() of the render that armed it.
ReconnectFires(t) ==
    /\ t \in chat.timers
    /\ chat' = [connect([chat EXCEPT !.timers = @ \ {t}], t.cfg)
                  EXCEPT !.reconnected = TRUE,
                         !.staleOpened = @ \/ t.stale]
    /\ UNCHANGED NonChat

\* The close event of a replaced socket.
OldSocketCloses(o) ==
    /\ o \in chat.old
    /\ LET c1 == [chat EXCEPT !.old = @ \ {o}]
       IN chat' = IF o.handled
                  THEN [onclose(c1, o.cfg) EXCEPT !.oldReconnect = TRUE]
                  ELSE c1
    /\ UNCHANGED NonChat

\* Time passes.
Tick ==
    /\ chat.now < ClockMax
    /\ chat' = [chat EXCEPT !.now = @ + 1]
    /\ UNCHANGED NonChat

\* The persist timer fires: persistMessages(msgs).
PersistFires(ok) ==
    /\ chat.persist.pending
    /\ chat' = [chat EXCEPT
                   !.storage = persistMessages(@, chat.persist.msgs, ok),
                   !.persist = [pending |-> FALSE, msgs |-> <<>>]]
    /\ UNCHANGED NonChat

GatewayAnswers ==
    \/ GatewayHello
    \/ \E raw \in HistoryReplies : GatewayHistory(raw)
    \/ \E state \in {"final", "error", "aborted"}, text \in FinalTexts :
          GatewayEnd(state, text)

TimerRuns == \E t \in chat.timers : ReconnectFires(t)

\* The message list under sends, streamed replies and history merges, over
\* connections that close and are made again while the settings stay.
ChatNext ==
    \/ Mount
    \/ WsOpens
    \/ GatewayAnswers
    \/ HandleSend
    \/ \E chunk \in Chunks : GatewayDelta(chunk)
    \/ WsCloses
    \/ TimerRuns
    \/ Tick

ChatSpec == ChatInit /\ [][ChatNext]_vars

GatewayReplies ==
    \/ GatewayHello
    \/ \E state \in {"final", "error", "aborted"}, text \in FinalTexts :
          GatewayEnd(state, text)

\* What an earlier run of the hook left in the store: n messages, newest
\* first, all older than this run.
Backlog(n) ==
    [i \in 1..n |->
        Message(0, IF i % 2 = 0 THEN "user" ELSE "assistant", <<"o">>,
                0 - i, FALSE)]

StoredValues ==
    {ChatFresh.storage}
      \cup {[present |-> TRUE, msgs |-> Backlog(n)] :
               n \in {MAX_PERSISTED - 1, MAX_PERSISTED}}

\* The hook as first rendered over a store that may hold a long list and
\* may fail to be read.
PersistInit ==
    /\ NonChatInit
    /\ \E stored \in StoredValues, ok \in BOOLEAN :
           chat = [ChatFresh EXCEPT
                      !.cfg = [token |-> "t1", url |-> "u1"],
                      !.storage = stored,
                      !.messages = loadPersistedMessages(stored, ok)]

\* Loading, sending, streaming and persisting over one connection.
PersistNext ==
    \/ Mount
    \/ WsOpens
    \/ GatewayReplies
    \/ HandleSend
    \/ \E chunk \in Chunks : GatewayDelta(chunk)
    \/ \E ok \in BOOLEAN : PersistFires(ok)

PersistSpec == PersistInit /\ [][PersistNext]_vars

\* The connection lifecycle and the streaming flag on their own: no history
\* merge and a clock that stands still.
LifeNext ==
    \/ Mount
    \/ \E cfg \in ChatSettings : SettingsChange(cfg)
    \/ Unmount
    \/ WsOpens
    \/ GatewayReplies
    \/ HandleSend
    \/ \E chunk \in Chunks : GatewayDelta(chunk)
    \/ WsError
    \/ WsCloses
    \/ TimerRuns
    \/ \E o \in chat.old : OldSocketCloses(o)

\* Timers fire, and the gateway answers what it owes on an open socket.
LifeSpec ==
    ChatInit /\ [][LifeNext]_vars /\ WF_vars(TimerRuns) /\ WF_vars(GatewayReplies)

\* ------------------------------------------- the registry on its own
\* addConnection and removeConnection called in any order, with connections
\* that differ only in their channel or only in their user.
PoolConnections ==
    {MakeConnection([token |-> "tok", clientType |-> "machine-scoped",
                     sessionId |-> Undefined, machineId |-> "m1"], s, u) :
        s \in Sockets, u \in Users}

RegistryCall(op, c) ==
    /\ Len(history) < MaxOps
    /\ registry' = IF op = "add"
                   THEN addConnection(registry, c.userId, c)
                   ELSE removeConnection(registry, c.userId, c)
    /\ history' = Append(history, [op |-> op, userId |-> c.userId, conn |-> c])
    /\ UNCHANGED <<pc, chan, auth, verified, connection, gauge, errors,
                   forced, verifyCalls, handlers, rpcListeners, emittedBy,
                   lastEmit, lastReg, displaced, Elsewhere>>

RegAdd(c) == RegistryCall("add", c)

RegRemove(c) == RegistryCall("remove", c)

RegistryNext ==
    \/ \E c \in PoolConnections : RegAdd(c)
    \/ \E c \in PoolConnections : RegRemove(c)

RegistrySpec == Init /\ [][RegistryNext]_vars

\* ------------------------------------------------------------ properties
Registered(s) ==
    \E u \in DOMAIN registry : \E c \in registry[u] : c.socket = s

\* The presence checks of the lifecycle gate, as the specification lists them.
LacksToken(a) == a.token = Undefined
LacksSessionId(a) == a.clientType = "session-scoped" /\ a.sessionId = Undefined
LacksMachineId(a) == a.clientType = "machine-scoped" /\ a.machineId = Undefined
FailsPresence(a) == LacksToken(a) \/ LacksSessionId(a) \/ LacksMachineId(a)

Online(m) == [type |-> "machine-activity", machineId |-> m, online |-> TRUE]
Offline(m) == [type |-> "machine-activity", machineId |-> m, online |-> FALSE]

\* C1: once a channel has closed and the handler of its socket is no longer
\* pending, the registry holds no connection for that channel.
C1_ClosedChannelNotRegistered ==
    \A s \in Sockets :
        chan[s] = "closed" /\ pc[s] # "verifying" => ~Registered(s)

\* C2: a connection attempt that the gate rejects (missing token, missing
\* scope identifier, or a token the verifier does not accept) changes no
\* state: no step of that socket touches the registry, the gauge, the
\* ephemeral events, the RPC table or the per-socket handlers, and the socket
\* never has a connection object, a handler or a registry entry.
C2_RejectedAttemptChangesNothing ==
    [][\A s \in Sockets :
          (pc'[s] # "none" /\ (FailsPresence(auth'[s]) \/ verified'[s] = Null))
          => /\ handlers'[s] = {}
             /\ connection'[s] = NoConnection
             /\ ~Registered(s)'
             /\ (pc'[s] # pc[s] \/ chan'[s] # chan[s])
                  => UNCHANGED <<registry, gauge, emittedBy, lastEmit,
                                 rpcListeners, handlers, connection>>]_vars

\* A session-scoped attempt without sessionId is rejected while another
\* socket is registered.
C2_Witness ==
    \E s, t \in Sockets :
        /\ pc[s] = "rejected" /\ LacksSessionId(auth[s]) /\ ~LacksToken(auth[s])
        /\ pc[t] = "active" /\ Registered(t) /\ t < s

\* C3: when the verifier fails, by returning no identity or by raising, the
\* connection is rejected as invalid-token: the error is emitted to the peer,
\* the server disconnects the socket, and it is never registered.
C3_VerifierFailureRejects ==
    \A s \in Sockets :
        verified[s] \in {Null, Throw}
        => /\ errors[s] = <<ErrInvalidToken>>
           /\ s \in forced
           /\ chan[s] = "closed"
           /\ ~Registered(s)

\* C4: an attempt without token, or session-scoped without sessionId, or
\* machine-scoped without machineId is rejected without a verifyToken call,
\* with exactly one error event and a server-side disconnect; the missing
\* token is reported before a missing scope identifier.
C4_PresenceRejection ==
    \A s \in Sockets :
        pc[s] # "none" /\ FailsPresence(auth[s])
        => /\ verifyCalls[s] = 0
           /\ pc[s] = "rejected"
           /\ s \in forced
           /\ chan[s] = "closed"
           /\ errors[s] = << IF LacksToken(auth[s]) THEN ErrMissingToken
                             ELSE IF LacksSessionId(auth[s])
                                  THEN ErrMissingSessionId
                                  ELSE ErrMissingMachineId >>

\* An attempt lacking both the token and the sessionId reports the token.
C4_Witness ==
    \E s \in Sockets :
        /\ LacksToken(auth[s]) /\ LacksSessionId(auth[s])
        /\ errors[s] = <<ErrMissingToken>> /\ s \in forced

\* C5: a connection is in the registry only after its own verifyToken call
\* resolved with an identity, under that identity; and while one socket's
\* verification is pending, every other socket can take its next step
\* (handshake, admission, disconnect).
C5_RegisteredAfterOwnVerification ==
    /\ \A u \in DOMAIN registry : \A c \in registry[u] :
          /\ c.socket \in Sockets
          /\ verifyCalls[c.socket] = 1
          /\ verified[c.socket] \in Users
          /\ verified[c.socket] = u
    /\ \A s \in Sockets :
          pc[s] \in {"none", "verifying"} => ~Registered(s)
    /\ \A s, t \in Sockets :
          (s # t /\ pc[s] = "verifying")
          => /\ (pc[t] = "none" /\ \A r \in Sockets : r < t => pc[r] # "none")
                   => ENABLED Connection(t)
             /\ pc[t] = "verifying" => ENABLED VerifyResolve(t)
             /\ (pc[t] = "active" /\ chan[t] = "open") => ENABLED Disconnect(t)

\* A later socket is registered while an earlier one is still being verified.
C5_Witness ==
    \E s, t \in Sockets :
        s < t /\ pc[s] = "verifying" /\ pc[t] = "active" /\ Registered(t)

\* C6: a machine-scoped connection whose channel has closed caused exactly
\* two machine-activity events with its machineId, online then offline; user-
\* and session-scoped connections cause none.
C6_OnlineThenOffline ==
    \A s \in Sockets :
        (connection[s] # NoConnection /\ chan[s] = "closed")
        => emittedBy[s] =
              IF auth[s].clientType = "machine-scoped"
              THEN <<Online(auth[s].machineId), Offline(auth[s].machineId)>>
              ELSE <<>>

\* C7: a machine-activity event emitted for user U goes to exactly the
\* user-scoped connections of U registered at emit time: to no session- or
\* machine-scoped connection, not to the socket that caused it, and to no
\* connection of another user.
C7_MachineActivityRecipients ==
    [][\A s \in Sockets :
          emittedBy'[s] # emittedBy[s]
          => /\ lastEmit'.userId = verified'[s]
             /\ lastEmit'.payload = emittedBy'[s][Len(emittedBy'[s])]
             /\ lastEmit'.recipients =
                  {t \in Sockets :
                      /\ Registered(t)'
                      /\ verified'[t] = verified'[s]
                      /\ auth'[t].clientType \in {Undefined, "user-scoped"}}
             /\ s \notin lastEmit'.recipients]_vars

\* An offline event reached a user-scoped connection of the same user.
C7_Witness ==
    /\ lastEmit.payload.type = "machine-activity"
    /\ lastEmit.payload.online = FALSE
    /\ lastEmit.recipients # {}

\* C8: a connection whose own disconnect handler has not run is registered,
\* whatever other connections of the same user have disconnected, also when
\* they carry the same machineId or sessionId.
C8_SiblingStaysRegistered ==
    \A t \in Sockets :
        pc[t] = "active"
        => /\ verified[t] \in DOMAIN registry
           /\ connection[t] \in registry[verified[t]]
           /\ connection[t].sessionId = auth[t].sessionId
           /\ connection[t].machineId = auth[t].machineId

\* Of two machine-scoped connections of one user with the same machineId,
\* one has disconnected and the other is still registered.
C8_Witness ==
    \E s, t \in Sockets :
        /\ s # t /\ pc[s] = "closed" /\ pc[t] = "active"
        /\ verified[s] = verified[t]
        /\ auth[s].clientType = "machine-scoped"
        /\ auth[s] = auth[t]
        /\ Registered(t)

\* C9: after any sequence of addConnection and removeConnection calls the
\* set of each user holds exactly the connections whose last call for that
\* user was an add: a repeated add does not duplicate, and removing a
\* connection that is not there changes nothing.
C9_AddedMinusRemoved ==
    \A u \in Users :
        /\ ConnectionsOf(registry, u) =
              {c \in PoolConnections :
                  \E i \in 1..Len(history) :
                      /\ history[i] = [op |-> "add", userId |-> u, conn |-> c]
                      /\ \A j \in (i + 1)..Len(history) :
                            history[j] # [op |-> "remove", userId |-> u,
                                          conn |-> c]}
        /\ Cardinality(ConnectionsOf(registry, u))
              <= Cardinality({i \in 1..Len(history) :
                                 history[i].op = "add" /\ history[i].userId = u})

\* The same connection added twice, then a sibling that was never added
\* removed: the set holds the one connection.
C9_Witness ==
    /\ Len(history) = 3
    /\ history[1].op = "add" /\ history[2] = history[1]
    /\ history[3].op = "remove"
    /\ history[3].userId = history[1].userId
    /\ history[3].conn # history[1].conn
    /\ registry[history[1].userId] = {history[1].conn}

\* C10: the listener table entry of (U, M) points at the socket that
\* registered M last for as long as that socket has not been torn down, also
\* after earlier registrants of M disconnect; the teardown of the last
\* registrant removes the entry.
C10_LastWriterWins ==
    \A u \in Users : \A m \in Methods :
        lastReg[u][m] # 0
        => /\ u \in DOMAIN rpcListeners
           /\ IF pc[lastReg[u][m]] = "active"
              THEN /\ m \in DOMAIN rpcListeners[u]
                   /\ rpcListeners[u][m] = lastReg[u][m]
              ELSE m \notin DOMAIN rpcListeners[u]

\* A registered M, B registered M after it, A disconnected: B is the listener.
C10_Witness ==
    \E u \in Users : \E m \in Methods : \E a \in displaced[u][m] :
        /\ pc[a] = "closed"
        /\ lastReg[u][m] # a
        /\ pc[lastReg[u][m]] = "active"
        /\ rpcListeners[u][m] = lastReg[u][m]

\* C11: a call of a method that has no entry in the table of the caller's
\* user sends exactly one frame, the no-listener error, to the caller;
\* nothing is forwarded or queued, and the table and the registry stay as
\* they are.
C11_NoListener ==
    [][\A s \in Sockets : \A m \in Methods :
          (/\ lastCall'.parity # lastCall.parity
           /\ lastCall'.caller = s /\ lastCall'.method = m
           /\ m \notin DOMAIN rpcListeners[verified[s]])
          => /\ rpcFrames' = {[to |-> s, kind |-> "no-listener", method |-> m]}
             /\ UNCHANGED <<pendingRpc, rpcListeners, registry>>]_vars

\* A call got the no-listener error while another socket of the same user
\* is connected.
C11_Witness ==
    /\ \E f \in rpcFrames : f.kind = "no-listener" /\ f.to = lastCall.caller
    /\ \E t \in Sockets :
          /\ t # lastCall.caller
          /\ pc[t] = "active"
          /\ verified[t] = verified[lastCall.caller]

NotifyStep == lastNotify'.parity # lastNotify.parity

SecretRejected(token) ==
    \/ env.AGENT_NOTIFY_TOKEN \in {Undefined, ""}
    \/ token = Undefined
    \/ token # env.AGENT_NOTIFY_TOKEN

RegisteredFor(u) ==
    {t \in Sockets : u \in DOMAIN registry /\ \E c \in registry[u] : c.socket = t}

\* C15: agent-notify answers 401 and emits nothing whenever
\* AGENT_NOTIFY_TOKEN is unset or empty or the X-Agent-Token header is
\* absent or different from it, whatever the target user and the registry
\* are (401 comes before 503).
C15_Unauthorized ==
    [][(NotifyStep /\ SecretRejected(lastNotify'.token))
          => /\ reply' = [code |-> 401, body |-> "Unauthorized"]
             /\ lastNotify'.emits = 0
             /\ UNCHANGED <<lastEmit, registry>>]_vars

\* A request without the header is answered 401 although the secret and the
\* target user are unset and nobody is connected.
C15_Witness ==
    /\ reply.code = 401
    /\ lastNotify.parity = 1
    /\ lastNotify.token = Undefined
    /\ env.AGENT_NOTIFY_TOKEN = Undefined
    /\ env.AGENT_NOTIFY_USER_ID = Undefined
    /\ DOMAIN registry = {}

\* C16: an authenticated agent-notify answers 503 and emits nothing when
\* the target user is not configured or has no connection set or an empty
\* one; otherwise it emits exactly one notification carrying the message
\* for the configured user, without recipient filter, to all connections
\* of that user, and answers ok.  The registry is not changed.
C16_NotifyOutcome ==
    [][(NotifyStep /\ ~SecretRejected(lastNotify'.token))
          => LET u == env.AGENT_NOTIFY_USER_ID
             IN /\ UNCHANGED registry
                /\ IF u \in {Undefined, ""} \/ RegisteredFor(u) = {}
                   THEN /\ reply' = [code |-> 503,
                                     body |-> "No active connections"]
                        /\ lastNotify'.emits = 0
                        /\ UNCHANGED lastEmit
                   ELSE /\ reply' = [code |-> 200, body |-> "ok"]
                        /\ lastNotify'.emits = 1
                        /\ lastEmit'.userId = u
                        /\ lastEmit'.filter = Undefined
                        /\ lastEmit'.payload.type = "notification"
                        /\ lastEmit'.payload.message = lastNotify'.message
                        /\ lastEmit'.recipients = RegisteredFor(u)]_vars

\* A notification reached every connection of the target user, a
\* session-scoped one among them.
C16_Witness ==
    /\ reply.code = 200
    /\ Cardinality(lastEmit.recipients) >= 2
    /\ \E t \in lastEmit.recipients :
          connection[t].connectionType = "session-scoped"

\* C19: for each scope the live-connection gauge equals the number of
\* admitted connections of that scope whose channel has not closed, and is
\* never negative.
C19_GaugeCountsLive ==
    \A t \in ConnectionTypes :
        /\ gauge[t] >= 0
        /\ gauge[t] = Cardinality({s \in Sockets :
                                      /\ connection[s].connectionType = t
                                      /\ chan[s] = "open"})

SameMessage(m, n) ==
    m.role = n.role /\ m.timestamp = n.timestamp /\ m.content = n.content

\* C20: mergeMessages(a, b) returns, newest first, exactly one copy of every
\* distinct message of a followed by b, two messages being the same only
\* when role, timestamp and content are all equal.
C20_MergeKeepsDistinct ==
    mergeDone
    => LET all == mergeA \o mergeB
       IN /\ \A i \in 1..(Len(merged) - 1) :
                merged[i].timestamp >= merged[i + 1].timestamp
          /\ \A i \in 1..Len(all) :
                Cardinality({j \in 1..Len(merged) :
                                SameMessage(merged[j], all[i])}) = 1
          /\ \A j \in 1..Len(merged) :
                \E i \in 1..Len(all) : SameMessage(merged[j], all[i])

\* The bytes of a sequence of chunks.
RECURSIVE Flatten(_)
Flatten(chunks) ==
    IF chunks = <<>> THEN <<>> ELSE Head(chunks) \o Flatten(Tail(chunks))

\* The URL of the request, cut before its query string, is '/v1/updates'.
OnReservedPath ==
    \E n \in 1..Len(br.req.url) :
        /\ SubSeq(br.req.url, 1, n) = <<"/v1/updates">>
        /\ n = Len(br.req.url) \/ br.req.url[n + 1] = "?"

\* C12: an upgrade request opens a gateway connection exactly when its path,
\* the URL without its query string, is not '/v1/updates'; on the reserved
\* path the bridge attaches no listener, writes nothing and opens nothing.
C12_BridgedIffNotReserved ==
    br.phase # "idle"
    => /\ br.up # "none" <=> ~OnReservedPath
       /\ OnReservedPath
          => /\ br.listeners = {}
             /\ br.upRecv = <<>> /\ br.peerRecv = <<>>
             /\ br.up = "none" /\ ~br.piped

\* A request on the reserved path with a query string was left alone.
C12_Witness ==
    /\ br.phase = "passed"
    /\ Len(br.req.url) > 1
    /\ br.up = "none"

Alive(state) == state \in {"connecting", "open"}

\* C13: once every error and close event of a bridged upgrade has been
\* handled, the peer socket and the gateway connection are either both
\* alive or both destroyed, whichever side failed or closed first and also
\* when the gateway connection never got established.
C13_NoHalfOpenBridge ==
    (br.phase = "bridged" /\ br.events = {})
    => (br.peer = "open" <=> Alive(br.up))

\* The connection to the gateway failed before it was established and the
\* peer socket has been destroyed for it.
C13_Witness ==
    /\ br.phase = "bridged" /\ br.events = {}
    /\ ~br.piped
    /\ br.up = "destroyed" /\ br.peer = "destroyed"
    /\ ~br.timerKilled

\* C14: while both channels of a bridged upgrade are open, what the gateway
\* received after the handshake followed by what is still in transit is
\* exactly what the peer wrote after the upgrade, and what the peer received
\* followed by what is still in transit is exactly what the gateway wrote.
C14_ByteExact ==
    (br.piped /\ br.peer = "open" /\ br.up = "open")
    => /\ Flatten(Tail(br.upRecv)) \o br.peerBuf = br.peerWrote
       /\ br.peerRecv \o br.gwBuf = br.gwWrote

\* Both directions have carried every byte: the peer's head and two more
\* bytes, and two different bytes of the gateway.
C14_Witness ==
    /\ br.piped /\ br.peer = "open" /\ br.up = "open"
    /\ br.peerBuf = <<>> /\ br.gwBuf = <<>>
    /\ br.req.head # <<>>
    /\ Len(br.peerWrote) = Len(br.req.head) + MaxBytes
    /\ Len(br.peerRecv) = MaxBytes
    /\ br.peerRecv[1] # br.peerRecv[2]

\* C17: when the no-match timer fires for a bridged socket, the gateway's
\* response has already been written to it, so the timer leaves it alone.
C17_TimerFindsResponse ==
    (br.phase = "bridged" /\ br.timer = "fired")
    => br.timerSaw > 0 /\ ~br.timerKilled

\* The request as it is replayed, spelt out for the headers of the model.
ReplayedRequest ==
    <<"GET", " ">> \o br.req.url
      \o <<" HTTP/1.1", "\r\n",
           "upgrade", ": ", "websocket", "\r\n",
           "set-cookie", ": ", "a=1", ", ", "b=2",
           "\r\n\r\n">>

\* The bytes the peer sent after the head.
AfterHead == SubSeq(br.peerWrote, Len(br.req.head) + 1, Len(br.peerWrote))

\* C18: nothing is written to the gateway before its connection is
\* established; from then on it has received the request line, the headers
\* and the blank line, then the head if there is one, then the peer's bytes
\* in order, each once, those that arrived before the connection included.
C18_ReplayOrder ==
    br.phase = "bridged"
    => /\ ~br.piped => br.upRecv = <<>>
       /\ br.piped
          => \E k \in 0..Len(AfterHead) :
                /\ br.upRecv =
                      <<ReplayedRequest>>
                        \o (IF br.req.head = <<>> THEN <<>>
                            ELSE <<br.req.head>>)
                        \o [i \in 1..k |-> <<AfterHead[i]>>]
                /\ (br.peer = "open" /\ br.up = "open")
                   => br.peerBuf = SubSeq(AfterHead, k + 1, Len(AfterHead))

\* Two bytes that the peer sent while the gateway was still connecting have
\* reached the gateway, after a handshake without head bytes.
C18_Witness ==
    /\ br.piped /\ br.up = "open"
    /\ br.req.head = <<>>
    /\ Len(br.upRecv) = 1 + MaxBytes
    /\ br.gwWrote = <<>>
    /\ br.timer = "armed"

\* No 'connection' handler is suspended at its await.
NoHandlerRunning == \A s \in Sockets : pc[s] # "verifying"

\* A machine-scoped connection of the user with that machineId is registered.
MachineRegistered(userId, machineId) ==
    \E c \in ConnectionsOf(registry, userId) :
        c.connectionType = "machine-scoped" /\ c.machineId = machineId

\* C23: while no connection handler is running, the most recent
\* machine-activity event of a user and machineId says online exactly when
\* a machine-scoped connection with that machineId is registered for the
\* user.  Stated for the most recent emission of all, which is the most
\* recent one of its own user and machineId.
C23_ActivityMatchesRegistry ==
    (NoHandlerRunning /\ lastEmit.payload.type = "machine-activity")
    => (lastEmit.payload.online
          <=> MachineRegistered(lastEmit.userId, lastEmit.payload.machineId))

\* C24: the listener map a socket registers in is the map of its own
\* verified user: every entry of the map of user U points at a socket whose
\* verified identity is U, every admitted socket has the map of its user,
\* and the last writer of an entry of U's map is a socket of U.
C24_OwnListenerMap ==
    /\ \A u \in DOMAIN rpcListeners : \A m \in DOMAIN rpcListeners[u] :
           verified[rpcListeners[u][m]] = u
    /\ \A s \in Sockets : pc[s] = "active" => verified[s] \in DOMAIN rpcListeners
    /\ \A u \in Users : \A m \in Methods :
           lastReg[u][m] # 0 => verified[lastReg[u][m]] = u

\* Sockets of two users have registered the same method, each in the map of
\* its own user.
C24_Witness ==
    \E s, t \in Sockets :
        /\ verified[s] = "uA" /\ verified[t] = "uB"
        /\ pc[s] = "active" /\ pc[t] = "active"
        /\ "ping" \in DOMAIN rpcListeners["uA"]
        /\ "ping" \in DOMAIN rpcListeners["uB"]
        /\ rpcListeners["uA"]["ping"] = s
        /\ rpcListeners["uB"]["ping"] = t

\* C21: the message list of the chat client is ordered newest first: its
\* timestamps never increase from one index to the next.
C21_NewestFirst ==
    \A i \in 1..(Len(chat.messages) - 1) :
        chat.messages[i].timestamp >= chat.messages[i + 1].timestamp

\* The positions of the messages of a list that are streaming.
Unsettled(msgs) == {i \in 1..Len(msgs) : msgs[i].isStreaming}

\* snap holds the first 200 non-streaming messages of msgs, in the order of
\* msgs: its k-th entry is the entry of msgs that has k - 1 non-streaming
\* entries before it.
IsSnapshotOf(snap, msgs) ==
    LET skipped == Unsettled(msgs)
        settled == Len(msgs) - Cardinality(skipped)
    IN /\ Len(snap) <= 200
       /\ Len(snap) = IF settled < 200 THEN settled ELSE 200
       /\ \A k \in 1..Len(snap) :
              /\ ~snap[k].isStreaming
              /\ \E j \in k..(k + Cardinality(skipped)) :
                     /\ j <= Len(msgs)
                     /\ j \notin skipped
                     /\ j - Cardinality({i \in skipped : i < j}) = k
                     /\ snap[k] = msgs[j]

\* C22: when the persist timer runs, the store either keeps its value (the
\* write failed) or holds the first 200 non-streaming messages of the
\* in-memory list in their order, and the in-memory list stays as it is; the
\* list the hook starts with is the stored one, or empty when nothing is
\* stored or the store cannot be read.
C22_PersistedSnapshot ==
    [][/\ (chat.persist.pending /\ ~chat'.persist.pending)
          => /\ chat'.messages = chat.messages
             /\ \/ chat'.storage = chat.storage
                \/ /\ chat'.storage.present
                   /\ IsSnapshotOf(chat'.storage.msgs, chat.messages)
       /\ chat.life = "fresh"
          => \/ chat.messages = <<>>
             \/ chat.storage.present /\ chat.messages = chat.storage.msgs
       /\ chat'.storage # chat.storage
          => chat.persist.pending /\ ~chat'.persist.pending]_vars

\* A list of more than 200 messages with a streaming reply on top has been
\* written: the store holds 200 messages, the newest one the user's.
C22_Witness ==
    /\ chat.storage.present
    /\ Len(chat.storage.msgs) = 200
    /\ chat.storage.msgs[1].content = UserText
    /\ Len(chat.messages) > 200
    /\ chat.messages[1].isStreaming
    /\ ~chat.persist.pending

\* The hook is mounted, shows 'connected' and has isStreaming set: the view
\* refuses to send.
SendBlocked ==
    /\ chat.life = "mounted"
    /\ chat.status = "connected"
    /\ chat.isStreaming

\* C25: a mounted, connected client never stays unable to send for ever:
\* isStreaming returns to false, also when the websocket that carried the
\* send closed before the end of the reply and the client reconnected.
C25_StreamingEnds == []<>~SendBlocked

Configured == chat.life = "mounted" /\ ~Unconfigured(chat.cfg)

\* C26: while the hook is mounted with token and url set, a closed websocket
\* is followed by a new connection attempt, however often that happens; with
\* token or url missing the hook has no websocket and shows 'disconnected'.
C26_Reconnects ==
    /\ (Configured /\ chat.ws = "closed")
          ~> (chat.ws = "connecting" \/ ~Configured)
    /\ []((chat.life = "mounted" /\ Unconfigured(chat.cfg))
            => (chat.ws = "none" /\ chat.status = "disconnected"))

\* After a reconnect attempt the websocket has closed again and the next
\* reconnect timer is pending.
C26_Witness ==
    /\ Configured
    /\ chat.reconnected
    /\ chat.ws = "closed"
    /\ chat.timers # {}
    /\ ~chat.cancelled

\* The number of websockets that have the hook's onclose and onerror set.
Handled ==
    (IF chat.handlers THEN 1 ELSE 0)
      + Cardinality({o \in chat.old : o.handled})

\* C27: at most one websocket carries the hook's close and error handlers
\* and at most one reconnect timer is pending; no replaced socket has ever
\* scheduled a reconnect, no timer armed before a cleanup has ever run
\* connect(), and an unmounted hook has no websocket and no timer.
C27_OneSocketOneTimer ==
    /\ Handled <= 1
    /\ Cardinality(chat.timers) <= 1
    /\ ~chat.oldReconnect
    /\ ~chat.staleOpened
    /\ chat.life = "unmounted" => (chat.ws = "none" /\ chat.timers = {})

\* The hook was unmounted while its reconnect timer was pending and while a
\* replaced socket was still closing.
C27_Witness ==
    /\ chat.life = "unmounted"
    /\ chat.cancelled
    /\ chat.old # {}
    /\ chat.timers = {}

TypeOK ==
    /\ pc \in [Sockets -> {"none", "verifying", "threw", "rejected", "active", "closed"}]
    /\ chan \in [Sockets -> {"none", "open", "closed"}]
    /\ \A t \in ConnectionTypes : gauge[t] \in 0..NumSockets
====
